---- MODULE Spec2Model ----
(***************************************************************************)
(* State-machine model of nanokvm-redfish (src/main.go): hardware          *)
(* detection, the GPIO line driver, the power control service, the reset   *)
(* action dispatcher and the in-memory boot override store, with each      *)
(* HTTP request handled on its own goroutine.                              *)
(***************************************************************************)
EXTENDS Integers, Sequences, FiniteSets, TLC

(***************************************************************************)
(* Goroutines of net/http that serve requests.  http.ListenAndServe runs   *)
(* every request on its own goroutine; two are enough to interleave.       *)
(***************************************************************************)
Workers == {"g1", "g2"}

NoFile == <<"ENOENT">>

(***************************************************************************)
(* Hardware profile registry.                                              *)
(***************************************************************************)
HWAlpha ==
  [Version |-> "alpha",
   GPIOReset |-> "/sys/class/gpio/gpio507/value",
   GPIOPower |-> "/sys/class/gpio/gpio503/value",
   GPIOPowerLED |-> "/sys/class/gpio/gpio504/value",
   GPIOHDDLed |-> "/sys/class/gpio/gpio505/value"]

HWBeta ==
  [Version |-> "beta",
   GPIOReset |-> "/sys/class/gpio/gpio505/value",
   GPIOPower |-> "/sys/class/gpio/gpio503/value",
   GPIOPowerLED |-> "/sys/class/gpio/gpio504/value",
   GPIOHDDLed |-> ""]

HWPcie ==
  [Version |-> "pcie",
   GPIOReset |-> "/sys/class/gpio/gpio505/value",
   GPIOPower |-> "/sys/class/gpio/gpio503/value",
   GPIOPowerLED |-> "/sys/class/gpio/gpio504/value",
   GPIOHDDLed |-> ""]

\* The nil *Hardware: every line reference of it is unusable.
NilHardware ==
  [Version |-> "nil", GPIOReset |-> "", GPIOPower |-> "",
   GPIOPowerLED |-> "", GPIOHDDLed |-> ""]

Paths ==
  {"/sys/class/gpio/gpio503/value", "/sys/class/gpio/gpio504/value",
   "/sys/class/gpio/gpio505/value", "/sys/class/gpio/gpio507/value"}

(***************************************************************************)
(* Text helpers.  File contents are sequences of one-character strings.    *)
(***************************************************************************)
IsSpace(c) == c \in {" ", "\n", "\t", "\r"}

RECURSIVE TrimLeft(_)
TrimLeft(s) ==
  IF s = <<>> THEN <<>>
  ELSE IF IsSpace(Head(s)) THEN TrimLeft(Tail(s)) ELSE s

RECURSIVE TrimRight(_)
TrimRight(s) ==
  IF s = <<>> THEN <<>>
  ELSE IF IsSpace(s[Len(s)]) THEN TrimRight(SubSeq(s, 1, Len(s) - 1)) ELSE s

\* strings.TrimSpace
TrimSpace(s) == TrimRight(TrimLeft(s))

Digits == {"0", "1", "2", "3", "4", "5", "6", "7", "8", "9"}

DigitVal(c) ==
  CASE c = "0" -> 0 [] c = "1" -> 1 [] c = "2" -> 2 [] c = "3" -> 3
    [] c = "4" -> 4 [] c = "5" -> 5 [] c = "6" -> 6 [] c = "7" -> 7
    [] c = "8" -> 8 [] c = "9" -> 9

RECURSIVE DecVal(_)
DecVal(s) ==
  IF s = <<>> THEN 0 ELSE 10 * DecVal(SubSeq(s, 1, Len(s) - 1)) + DigitVal(s[Len(s)])

\* strconv.Atoi: an optional sign followed by one or more decimal digits.
Atoi(s) ==
  LET signed == s # <<>> /\ Head(s) \in {"+", "-"}
      body == IF signed THEN Tail(s) ELSE s
  IN IF body = <<>> \/ \E i \in 1..Len(body) : body[i] \notin Digits
       THEN [value |-> 0, err |-> "MalformedValue"]
       ELSE [value |-> IF signed /\ Head(s) = "-" THEN 0 - DecVal(body) ELSE DecVal(body),
             err |-> "nil"]

(***************************************************************************)
(* Hardware detector.                                                      *)
(***************************************************************************)
\* Variant that compares the raw content, without strings.TrimSpace.
detectHardwareNoTrim(content) ==
  IF content = NoFile THEN [hw |-> NilHardware, err |-> "ConfigUnreadable"]
  ELSE LET version == content
       IN CASE version = <<"a", "l", "p", "h", "a">> -> [hw |-> HWAlpha, err |-> "nil"]
            [] version = <<"b", "e", "t", "a">> -> [hw |-> HWBeta, err |-> "nil"]
            [] version = <<"p", "c", "i", "e">> -> [hw |-> HWPcie, err |-> "nil"]
            [] OTHER -> [hw |-> NilHardware, err |-> "UnknownHardware"]

detectHardwareFromFile(content) ==
  IF content = NoFile THEN [hw |-> NilHardware, err |-> "ConfigUnreadable"]
  ELSE LET version == TrimSpace(content)
       IN CASE version = <<"a", "l", "p", "h", "a">> -> [hw |-> HWAlpha, err |-> "nil"]
            [] version = <<"b", "e", "t", "a">> -> [hw |-> HWBeta, err |-> "nil"]
            [] version = <<"p", "c", "i", "e">> -> [hw |-> HWPcie, err |-> "nil"]
            [] OTHER -> [hw |-> NilHardware, err |-> "UnknownHardware"]

(***************************************************************************)
(* GPIO line driver: read side.  files is the file system, path -> content *)
(***************************************************************************)
\* Variant that reads an absent line as value 0.
readGPIOAbsentIsZero(files, path) ==
  IF path = "" THEN [value |-> 0, err |-> "nil"]
  ELSE IF files[path] = NoFile THEN [value |-> 0, err |-> "IOError"]
  ELSE Atoi(TrimSpace(files[path]))

readGPIO(files, path) ==
  IF path = "" THEN [value |-> 0, err |-> "CapabilityAbsent"]
  ELSE IF files[path] = NoFile THEN [value |-> 0, err |-> "IOError"]
  ELSE Atoi(TrimSpace(files[path]))

\* Variant with the polarity LED-high = On.
getPowerStateLedHighIsOn(files, hw) ==
  LET powerLED == readGPIO(files, hw.GPIOPowerLED)
  IN IF powerLED.err # "nil" THEN [state |-> "", err |-> powerLED.err]
     ELSE IF powerLED.value # 0 THEN [state |-> "On", err |-> "nil"]
     ELSE [state |-> "Off", err |-> "nil"]

\* GPIO value is inverted: 0 = power on, anything else = power off.
getPowerState(files, hw) ==
  LET powerLED == readGPIO(files, hw.GPIOPowerLED)
  IN IF powerLED.err # "nil" THEN [state |-> "", err |-> powerLED.err]
     ELSE IF powerLED.value = 0 THEN [state |-> "On", err |-> "nil"]
     ELSE [state |-> "Off", err |-> "nil"]

\* Arguments of the writeGPIO call made by each press helper.
performResetOnPowerLine(hw) == [path |-> hw.GPIOPower, duration |-> 800]

performReset(hw) == [path |-> hw.GPIOReset, duration |-> 800]

pressPowerButtonOnResetLine(hw) == [path |-> hw.GPIOReset, duration |-> 800]

pressPowerButtonOnLED(hw) == [path |-> hw.GPIOPowerLED, duration |-> 800]

pressPowerButtonLong(hw) == [path |-> hw.GPIOPower, duration |-> 1000]

pressPowerButton(hw) == [path |-> hw.GPIOPower, duration |-> 800]

longPressPowerButtonShort(hw) == [path |-> hw.GPIOPower, duration |-> 800]

longPressPowerButton(hw) == [path |-> hw.GPIOPower, duration |-> 1000]


(***************************************************************************)
(* Boot override store.  A Go string is two machine words, a data pointer  *)
(* and a length, and an assignment stores them one after the other; the    *)
(* data pointer is identified with the string it points to.  A string      *)
(* whose length word belongs to another string than its pointer word is    *)
(* torn: its bytes are no value any request supplied.                      *)
(***************************************************************************)
GoString(s) == [ptr |-> s, len |-> Len(s)]

Torn == "<torn>"

StringOf(g) == IF g.len = Len(g.ptr) THEN g.ptr ELSE Torn

AllowableTargets ==
  <<"None", "Pxe", "Cd", "Usb", "Hdd", "BiosSetup",
    "Utilities", "Diags", "UefiShell", "UefiTarget",
    "SDCard", "UefiHttp", "RemoteDrive", "UefiBootNext">>

VARIABLES
  mainpc,            \* position of main: "start", "serving" or "exited"
  hwFile,            \* content of /etc/kvm/hw
  currentHardware,   \* the active profile (NilHardware until detected)
  files,             \* content of every GPIO value file
  currentBootConfig, \* the boot override singleton
  pc,                \* per goroutine: position in its handler
  req,               \* per goroutine: the request being handled
  ps,                \* per goroutine: result of its getPowerState call
  gp,                \* per goroutine: arguments of its writeGPIO call
  word,              \* per goroutine: words already stored of the current string assignment
  wlog,              \* per goroutine: line writes attempted by this request
  held,              \* per goroutine: milliseconds slept by this request
  resp,              \* per goroutine: the response written
  ret,               \* per goroutine: what its driver call (readGPIO, writeGPIO) returned
  fatal              \* the error main logged with log.Fatalf ("" if none)

vars == <<mainpc, hwFile, currentHardware, files, currentBootConfig,
          pc, req, ps, gp, word, wlog, held, resp, ret, fatal>>

(***************************************************************************)
(* Inputs.                                                                 *)
(***************************************************************************)
HwContents ==
  {<<"a", "l", "p", "h", "a">>,
   <<"b", "e", "t", "a", "\n">>,
   <<" ", "p", "c", "i", "e", "\n">>,
   <<"A", "l", "p", "h", "a">>,
   NoFile}

LedContents == {<<"0">>, <<"1">>, <<"0", "\n">>, <<"x", "y", "z">>, NoFile}

ButtonContents == {<<"0">>, <<"1">>}

ResetTypes == {"On", "ForceOff", "GracefulShutdown", "ForceRestart", "PowerOn", "Sleep"}

NoBoot ==
  [BootSourceOverrideEnabled |-> "", BootSourceOverrideMode |-> "",
   BootSourceOverrideTarget |-> "", AllowableValues |-> <<>>]

PatchBoots ==
  {[NoBoot EXCEPT !.BootSourceOverrideEnabled = "Once", !.BootSourceOverrideTarget = "Pxe"],
   [NoBoot EXCEPT !.BootSourceOverrideEnabled = "Continuous", !.BootSourceOverrideTarget = "UefiShell"],
   [NoBoot EXCEPT !.BootSourceOverrideTarget = "Pxe", !.AllowableValues = <<"Pxe", "Bogus">>],
   [NoBoot EXCEPT !.BootSourceOverrideTarget = "InvalidTarget"],
   [NoBoot EXCEPT !.BootSourceOverrideEnabled = "Once", !.BootSourceOverrideMode = "Legacy",
                  !.BootSourceOverrideTarget = "Bogus", !.AllowableValues = <<"Bogus">>],
   [NoBoot EXCEPT !.BootSourceOverrideMode = "Legacy"],
   [NoBoot EXCEPT !.BootSourceOverrideEnabled = "Sometimes", !.BootSourceOverrideMode = "xyz"],
   NoBoot}

NoReq ==
  [handler |-> "", method |-> "", valid |-> FALSE, ResetType |-> "",
   hasBoot |-> FALSE, Boot |-> NoBoot]

NoResp == [code |-> 0, msg |-> "", PowerState |-> ""]

NoPs == [state |-> "", err |-> "notcalled"]

NoGp == [path |-> "", duration |-> 0]

NoRet == [value |-> 0, err |-> ""]

Reply(code, msg) == [code |-> code, msg |-> msg, PowerState |-> ""]

(***************************************************************************)
(* Initial state: the process image before main runs.                      *)
(***************************************************************************)
Init ==
  /\ mainpc = "start"
  /\ hwFile \in HwContents
  /\ currentHardware = NilHardware
  /\ \E led \in LedContents, b \in ButtonContents :
       files = [p \in Paths |->
                  IF p = "/sys/class/gpio/gpio504/value" THEN led ELSE b]
  /\ currentBootConfig =
       [BootSourceOverrideEnabled |-> GoString("Disabled"),
        BootSourceOverrideMode |-> GoString("UEFI"),
        BootSourceOverrideTarget |-> GoString("None"),
        AllowableValues |-> AllowableTargets]
  /\ pc = [w \in Workers |-> "idle"]
  /\ req = [w \in Workers |-> NoReq]
  /\ ps = [w \in Workers |-> NoPs]
  /\ gp = [w \in Workers |-> NoGp]
  /\ word = [w \in Workers |-> 0]
  /\ wlog = [w \in Workers |-> <<>>]
  /\ held = [w \in Workers |-> 0]
  /\ resp = [w \in Workers |-> NoResp]
  /\ ret = [w \in Workers |-> NoRet]
  /\ fatal = ""

(***************************************************************************)
(* main: detect the hardware once, exit on failure, then serve.            *)
(***************************************************************************)
\* Variant that logs the detection failure and serves all the same.
MainServesOnError ==
  /\ mainpc = "start"
  /\ LET d == detectHardwareFromFile(hwFile)
     IN /\ mainpc' = "serving"
        /\ IF d.err # "nil"
             THEN UNCHANGED <<currentHardware, fatal>>
             ELSE /\ currentHardware' = d.hw
                  /\ UNCHANGED fatal
  /\ UNCHANGED <<hwFile, files, currentBootConfig, pc, req, ps, gp, word, wlog, held, resp, ret>>

Main ==
  /\ mainpc = "start"
  /\ LET d == detectHardwareFromFile(hwFile)
     IN IF d.err # "nil"
          THEN /\ mainpc' = "exited"
               /\ fatal' = d.err
               /\ UNCHANGED currentHardware
          ELSE /\ mainpc' = "serving"
               /\ currentHardware' = d.hw
               /\ UNCHANGED fatal
  /\ UNCHANGED <<hwFile, files, currentBootConfig, pc, req, ps, gp, word, wlog, held, resp, ret>>

\* The managed machine drives its power LED: the line changes under the program.
EnvLED ==
  /\ mainpc = "serving"
  /\ \E c \in LedContents :
       /\ c # files["/sys/class/gpio/gpio504/value"]
       /\ files' = [files EXCEPT !["/sys/class/gpio/gpio504/value"] = c]
  /\ UNCHANGED <<mainpc, hwFile, currentHardware, currentBootConfig,
                 pc, req, ps, gp, word, wlog, held, resp, ret, fatal>>

(***************************************************************************)
(* Action dispatcher: the switch of handleReset on req.ResetType, given    *)
(* the power state string its getPowerState call returned ("" on error,    *)
(* the error itself being discarded by the handler).                       *)
(***************************************************************************)
NeedsPowerState(t) == t \in {"On", "ForceOff", "GracefulShutdown"}

\* Variant whose GracefulShutdown case tests for "Off".
dispatchShutdownWhenOff(t, state, hw) ==
  CASE t = "On" ->
         IF state = "Off"
           THEN [kind |-> "press", call |-> pressPowerButton(hw), fail |-> "Failed to power on"]
           ELSE [kind |-> "noop", call |-> NoGp, fail |-> ""]
    [] t = "ForceOff" ->
         IF state = "On"
           THEN [kind |-> "press", call |-> longPressPowerButton(hw), fail |-> "Failed to power off"]
           ELSE [kind |-> "noop", call |-> NoGp, fail |-> ""]
    [] t = "GracefulShutdown" ->
         IF state = "Off"
           THEN [kind |-> "press", call |-> pressPowerButton(hw), fail |-> "Failed to shutdown"]
           ELSE [kind |-> "noop", call |-> NoGp, fail |-> ""]
    [] t = "ForceRestart" ->
         [kind |-> "press", call |-> performReset(hw), fail |-> "Failed to reset"]
    [] OTHER ->
         [kind |-> "reject", call |-> NoGp, fail |-> "Invalid ResetType"]

\* Variant whose default case falls into the ForceRestart case.
dispatchDefaultResets(t, state, hw) ==
  CASE t = "On" ->
         IF state = "Off"
           THEN [kind |-> "press", call |-> pressPowerButton(hw), fail |-> "Failed to power on"]
           ELSE [kind |-> "noop", call |-> NoGp, fail |-> ""]
    [] t = "ForceOff" ->
         IF state = "On"
           THEN [kind |-> "press", call |-> longPressPowerButton(hw), fail |-> "Failed to power off"]
           ELSE [kind |-> "noop", call |-> NoGp, fail |-> ""]
    [] t = "GracefulShutdown" ->
         IF state = "On"
           THEN [kind |-> "press", call |-> pressPowerButton(hw), fail |-> "Failed to shutdown"]
           ELSE [kind |-> "noop", call |-> NoGp, fail |-> ""]
    [] t = "ForceRestart" ->
         [kind |-> "press", call |-> performReset(hw), fail |-> "Failed to reset"]
    [] OTHER ->
         [kind |-> "press", call |-> performReset(hw), fail |-> "Failed to reset"]

dispatch(t, state, hw) ==
  CASE t = "On" ->
         IF state = "Off"
           THEN [kind |-> "press", call |-> pressPowerButton(hw), fail |-> "Failed to power on"]
           ELSE [kind |-> "noop", call |-> NoGp, fail |-> ""]
    [] t = "ForceOff" ->
         IF state = "On"
           THEN [kind |-> "press", call |-> longPressPowerButton(hw), fail |-> "Failed to power off"]
           ELSE [kind |-> "noop", call |-> NoGp, fail |-> ""]
    [] t = "GracefulShutdown" ->
         IF state = "On"
           THEN [kind |-> "press", call |-> pressPowerButton(hw), fail |-> "Failed to shutdown"]
           ELSE [kind |-> "noop", call |-> NoGp, fail |-> ""]
    [] t = "ForceRestart" ->
         [kind |-> "press", call |-> performReset(hw), fail |-> "Failed to reset"]
    [] OTHER ->
         [kind |-> "reject", call |-> NoGp, fail |-> "Invalid ResetType"]

FailMsg(w) == dispatch(req[w].ResetType, ps[w].state, currentHardware).fail

\* Variant without the method check.
HandleResetAnyMethod(w) ==
  /\ mainpc = "serving"
  /\ pc[w] = "idle"
  /\ \E method \in {"POST", "GET"}, valid \in BOOLEAN, t \in ResetTypes :
       LET r == [NoReq EXCEPT !.handler = "reset", !.method = method,
                              !.valid = valid, !.ResetType = IF valid THEN t ELSE ""]
           read == IF NeedsPowerState(t) THEN getPowerState(files, currentHardware) ELSE NoPs
           d == dispatch(t, read.state, currentHardware)
       IN /\ valid \/ t = "On"
          /\ req' = [req EXCEPT ![w] = r]
          /\ IF FALSE
               THEN /\ resp' = [resp EXCEPT ![w] = Reply(405, "Method not allowed")]
                    /\ pc' = [pc EXCEPT ![w] = "done"]
                    /\ UNCHANGED <<ps, gp>>
             ELSE IF ~valid
               THEN /\ resp' = [resp EXCEPT ![w] = Reply(400, "Invalid JSON")]
                    /\ pc' = [pc EXCEPT ![w] = "done"]
                    /\ UNCHANGED <<ps, gp>>
             ELSE /\ ps' = [ps EXCEPT ![w] = read]
                  /\ CASE d.kind = "press" ->
                            /\ gp' = [gp EXCEPT ![w] = d.call]
                            /\ pc' = [pc EXCEPT ![w] = "assert"]
                            /\ UNCHANGED resp
                       [] d.kind = "noop" ->
                            /\ resp' = [resp EXCEPT ![w] = Reply(204, "")]
                            /\ pc' = [pc EXCEPT ![w] = "done"]
                            /\ UNCHANGED gp
                       [] OTHER ->
                            /\ resp' = [resp EXCEPT ![w] = Reply(400, d.fail)]
                            /\ pc' = [pc EXCEPT ![w] = "done"]
                            /\ UNCHANGED gp
  /\ UNCHANGED <<mainpc, hwFile, currentHardware, files, currentBootConfig, word, wlog, held, ret, fatal>>

\* handleReset up to the first line write: method check, body decoding, the
\* power state read and the switch.
HandleReset(w) ==
  /\ mainpc = "serving"
  /\ pc[w] = "idle"
  /\ \E method \in {"POST", "GET"}, valid \in BOOLEAN, t \in ResetTypes :
       LET r == [NoReq EXCEPT !.handler = "reset", !.method = method,
                              !.valid = valid, !.ResetType = IF valid THEN t ELSE ""]
           read == IF NeedsPowerState(t) THEN getPowerState(files, currentHardware) ELSE NoPs
           d == dispatch(t, read.state, currentHardware)
       IN /\ valid \/ t = "On"
          /\ req' = [req EXCEPT ![w] = r]
          /\ IF method # "POST"
               THEN /\ resp' = [resp EXCEPT ![w] = Reply(405, "Method not allowed")]
                    /\ pc' = [pc EXCEPT ![w] = "done"]
                    /\ UNCHANGED <<ps, gp>>
             ELSE IF ~valid
               THEN /\ resp' = [resp EXCEPT ![w] = Reply(400, "Invalid JSON")]
                    /\ pc' = [pc EXCEPT ![w] = "done"]
                    /\ UNCHANGED <<ps, gp>>
             ELSE /\ ps' = [ps EXCEPT ![w] = read]
                  /\ CASE d.kind = "press" ->
                            /\ gp' = [gp EXCEPT ![w] = d.call]
                            /\ pc' = [pc EXCEPT ![w] = "assert"]
                            /\ UNCHANGED resp
                       [] d.kind = "noop" ->
                            /\ resp' = [resp EXCEPT ![w] = Reply(204, "")]
                            /\ pc' = [pc EXCEPT ![w] = "done"]
                            /\ UNCHANGED gp
                       [] OTHER ->
                            /\ resp' = [resp EXCEPT ![w] = Reply(400, d.fail)]
                            /\ pc' = [pc EXCEPT ![w] = "done"]
                            /\ UNCHANGED gp
  /\ UNCHANGED <<mainpc, hwFile, currentHardware, files, currentBootConfig, word, wlog, held, ret, fatal>>

(***************************************************************************)
(* GPIO line driver: write side.  writeGPIO is three steps, each of which  *)
(* other goroutines can interleave with.  A failing os.WriteFile leaves    *)
(* the file as it was.                                                     *)
(***************************************************************************)
\* What the caller of writeGPIO does with its result: handleReset answers
\* 500 on an error and 204 otherwise; a direct caller only keeps the result.
Failed(w) == IF req[w].handler = "reset" THEN Reply(500, FailMsg(w)) ELSE resp[w]

Succeeded(w) == IF req[w].handler = "reset" THEN Reply(204, "") ELSE resp[w]

\* Variant that releases right after asserting, whatever the duration.
WriteAssertSkipsHold(w) ==
  /\ pc[w] = "assert"
  /\ IF gp[w].path = ""
       THEN /\ ret' = [ret EXCEPT ![w] = [value |-> 0, err |-> "CapabilityAbsent"]]
            /\ resp' = [resp EXCEPT ![w] = Failed(w)]
            /\ pc' = [pc EXCEPT ![w] = "done"]
            /\ UNCHANGED <<files, wlog>>
       ELSE \E ok \in BOOLEAN :
              /\ wlog' = [wlog EXCEPT ![w] = Append(@, [path |-> gp[w].path, value |-> "1", ok |-> ok])]
              /\ IF ok
                   THEN /\ files' = [files EXCEPT ![gp[w].path] = <<"1">>]
                        /\ pc' = [pc EXCEPT ![w] = "release"]
                        /\ UNCHANGED <<resp, ret>>
                   ELSE /\ ret' = [ret EXCEPT ![w] = [value |-> 0, err |-> "IOError"]]
                        /\ resp' = [resp EXCEPT ![w] = Failed(w)]
                        /\ pc' = [pc EXCEPT ![w] = "done"]
                        /\ UNCHANGED files
  /\ UNCHANGED <<mainpc, hwFile, currentHardware, currentBootConfig, req, ps, gp, word, held, fatal>>

\* Variant that goes on to the hold and the release after a failed assert write.
WriteAssertContinuesOnError(w) ==
  /\ pc[w] = "assert"
  /\ IF gp[w].path = ""
       THEN /\ ret' = [ret EXCEPT ![w] = [value |-> 0, err |-> "CapabilityAbsent"]]
            /\ resp' = [resp EXCEPT ![w] = Failed(w)]
            /\ pc' = [pc EXCEPT ![w] = "done"]
            /\ UNCHANGED <<files, wlog>>
       ELSE \E ok \in BOOLEAN :
              /\ wlog' = [wlog EXCEPT ![w] = Append(@, [path |-> gp[w].path, value |-> "1", ok |-> ok])]
              /\ IF ok
                   THEN /\ files' = [files EXCEPT ![gp[w].path] = <<"1">>]
                        /\ pc' = [pc EXCEPT ![w] = IF gp[w].duration > 0 THEN "hold" ELSE "release"]
                        /\ UNCHANGED <<resp, ret>>
                   ELSE /\ pc' = [pc EXCEPT ![w] = IF gp[w].duration > 0 THEN "hold" ELSE "release"]
                        /\ UNCHANGED <<files, resp, ret>>
  /\ UNCHANGED <<mainpc, hwFile, currentHardware, currentBootConfig, req, ps, gp, word, held, fatal>>

WriteAssert(w) ==
  /\ pc[w] = "assert"
  /\ IF gp[w].path = ""
       THEN /\ ret' = [ret EXCEPT ![w] = [value |-> 0, err |-> "CapabilityAbsent"]]
            /\ resp' = [resp EXCEPT ![w] = Failed(w)]
            /\ pc' = [pc EXCEPT ![w] = "done"]
            /\ UNCHANGED <<files, wlog>>
       ELSE \E ok \in BOOLEAN :
              /\ wlog' = [wlog EXCEPT ![w] = Append(@, [path |-> gp[w].path, value |-> "1", ok |-> ok])]
              /\ IF ok
                   THEN /\ files' = [files EXCEPT ![gp[w].path] = <<"1">>]
                        /\ pc' = [pc EXCEPT ![w] = IF gp[w].duration > 0 THEN "hold" ELSE "release"]
                        /\ UNCHANGED <<resp, ret>>
                   ELSE /\ ret' = [ret EXCEPT ![w] = [value |-> 0, err |-> "IOError"]]
                        /\ resp' = [resp EXCEPT ![w] = Failed(w)]
                        /\ pc' = [pc EXCEPT ![w] = "done"]
                        /\ UNCHANGED files
  /\ UNCHANGED <<mainpc, hwFile, currentHardware, currentBootConfig, req, ps, gp, word, held, fatal>>

\* Variant whose sleep can be cut short by a cancellation that ends the call.
HoldCancellable(w) ==
  /\ pc[w] = "hold"
  /\ \/ /\ held' = [held EXCEPT ![w] = @ + gp[w].duration]
        /\ pc' = [pc EXCEPT ![w] = "release"]
        /\ UNCHANGED <<resp, ret>>
     \/ /\ pc' = [pc EXCEPT ![w] = "done"]
        /\ ret' = [ret EXCEPT ![w] = [value |-> 0, err |-> "IOError"]]
        /\ resp' = [resp EXCEPT ![w] = Failed(w)]
        /\ UNCHANGED held
  /\ UNCHANGED <<mainpc, hwFile, currentHardware, files, currentBootConfig,
                 req, ps, gp, word, wlog, fatal>>

\* time.Sleep(duration ms): returns only after the whole duration.
Hold(w) ==
  /\ pc[w] = "hold"
  /\ held' = [held EXCEPT ![w] = @ + gp[w].duration]
  /\ pc' = [pc EXCEPT ![w] = "release"]
  /\ UNCHANGED <<mainpc, hwFile, currentHardware, files, currentBootConfig,
                 req, ps, gp, word, wlog, resp, ret, fatal>>

\* Variant whose release write writes 1 again.
WriteReleaseWritesOne(w) ==
  /\ pc[w] = "release"
  /\ \E ok \in BOOLEAN :
       /\ wlog' = [wlog EXCEPT ![w] = Append(@, [path |-> gp[w].path, value |-> "0", ok |-> ok])]
       /\ pc' = [pc EXCEPT ![w] = "done"]
       /\ IF ok
            THEN /\ files' = [files EXCEPT ![gp[w].path] = <<"1">>]
                 /\ ret' = [ret EXCEPT ![w] = [value |-> 0, err |-> "nil"]]
                 /\ resp' = [resp EXCEPT ![w] = Succeeded(w)]
            ELSE /\ ret' = [ret EXCEPT ![w] = [value |-> 0, err |-> "IOError"]]
                 /\ resp' = [resp EXCEPT ![w] = Failed(w)]
                 /\ UNCHANGED files
  /\ UNCHANGED <<mainpc, hwFile, currentHardware, currentBootConfig, req, ps, gp, word, held, fatal>>

\* Variant that tries the release write again after it failed.
WriteReleaseRetries(w) ==
  /\ pc[w] = "release"
  /\ \E ok \in BOOLEAN :
       /\ wlog' = [wlog EXCEPT ![w] = Append(@, [path |-> gp[w].path, value |-> "0", ok |-> ok])]
       /\ pc' = [pc EXCEPT ![w] = IF ok THEN "done" ELSE "release"]
       /\ IF ok
            THEN /\ files' = [files EXCEPT ![gp[w].path] = <<"0">>]
                 /\ ret' = [ret EXCEPT ![w] = [value |-> 0, err |-> "nil"]]
                 /\ resp' = [resp EXCEPT ![w] = Succeeded(w)]
            ELSE UNCHANGED <<files, resp, ret>>
  /\ UNCHANGED <<mainpc, hwFile, currentHardware, currentBootConfig, req, ps, gp, word, held, fatal>>

\* Variant whose release write flips the line instead of writing 0.
WriteReleaseToggles(w) ==
  /\ pc[w] = "release"
  /\ \E ok \in BOOLEAN :
       /\ wlog' = [wlog EXCEPT ![w] = Append(@, [path |-> gp[w].path, value |-> "0", ok |-> ok])]
       /\ pc' = [pc EXCEPT ![w] = "done"]
       /\ IF ok
            THEN /\ files' = [files EXCEPT ![gp[w].path] = IF @ = <<"1">> THEN <<"0">> ELSE <<"1">>]
                 /\ ret' = [ret EXCEPT ![w] = [value |-> 0, err |-> "nil"]]
                 /\ resp' = [resp EXCEPT ![w] = Succeeded(w)]
            ELSE /\ ret' = [ret EXCEPT ![w] = [value |-> 0, err |-> "IOError"]]
                 /\ resp' = [resp EXCEPT ![w] = Failed(w)]
                 /\ UNCHANGED files
  /\ UNCHANGED <<mainpc, hwFile, currentHardware, currentBootConfig, req, ps, gp, word, held, fatal>>

\* Variant whose release write waits while another call holds the same line.
WriteReleaseWaitsForHolders(w) ==
  /\ pc[w] = "release"
  /\ \A v \in Workers \ {w} : ~(pc[v] = "hold" /\ gp[v].path = gp[w].path)
  /\ \E ok \in BOOLEAN :
       /\ wlog' = [wlog EXCEPT ![w] = Append(@, [path |-> gp[w].path, value |-> "0", ok |-> ok])]
       /\ pc' = [pc EXCEPT ![w] = "done"]
       /\ IF ok
            THEN /\ files' = [files EXCEPT ![gp[w].path] = <<"0">>]
                 /\ ret' = [ret EXCEPT ![w] = [value |-> 0, err |-> "nil"]]
                 /\ resp' = [resp EXCEPT ![w] = Succeeded(w)]
            ELSE /\ ret' = [ret EXCEPT ![w] = [value |-> 0, err |-> "IOError"]]
                 /\ resp' = [resp EXCEPT ![w] = Failed(w)]
                 /\ UNCHANGED files
  /\ UNCHANGED <<mainpc, hwFile, currentHardware, currentBootConfig, req, ps, gp, word, held, fatal>>

WriteRelease(w) ==
  /\ pc[w] = "release"
  /\ \E ok \in BOOLEAN :
       /\ wlog' = [wlog EXCEPT ![w] = Append(@, [path |-> gp[w].path, value |-> "0", ok |-> ok])]
       /\ pc' = [pc EXCEPT ![w] = "done"]
       /\ IF ok
            THEN /\ files' = [files EXCEPT ![gp[w].path] = <<"0">>]
                 /\ ret' = [ret EXCEPT ![w] = [value |-> 0, err |-> "nil"]]
                 /\ resp' = [resp EXCEPT ![w] = Succeeded(w)]
            ELSE /\ ret' = [ret EXCEPT ![w] = [value |-> 0, err |-> "IOError"]]
                 /\ resp' = [resp EXCEPT ![w] = Failed(w)]
                 /\ UNCHANGED files
  /\ UNCHANGED <<mainpc, hwFile, currentHardware, currentBootConfig, req, ps, gp, word, held, fatal>>

\* The handler has returned; the goroutine is free for the next request.
Return(w) ==
  /\ pc[w] = "done"
  /\ pc' = [pc EXCEPT ![w] = "idle"]
  /\ req' = [req EXCEPT ![w] = NoReq]
  /\ ps' = [ps EXCEPT ![w] = NoPs]
  /\ gp' = [gp EXCEPT ![w] = NoGp]
  /\ word' = [word EXCEPT ![w] = 0]
  /\ wlog' = [wlog EXCEPT ![w] = <<>>]
  /\ held' = [held EXCEPT ![w] = 0]
  /\ resp' = [resp EXCEPT ![w] = NoResp]
  /\ ret' = [ret EXCEPT ![w] = NoRet]
  /\ UNCHANGED <<mainpc, hwFile, currentHardware, files, currentBootConfig, fatal>>

(***************************************************************************)
(* Read-only handlers.                                                     *)
(***************************************************************************)
StaticHandlers ==
  {"handleServiceRoot", "handleSystems", "handleManagers",
   "handleManager", "handleChassis", "handleChassisItem"}

HandleStatic(w) ==
  /\ mainpc = "serving"
  /\ pc[w] = "idle"
  /\ \E h \in StaticHandlers, method \in {"GET", "POST"} :
       /\ req' = [req EXCEPT ![w] = [NoReq EXCEPT !.handler = h, !.method = method]]
       /\ resp' = [resp EXCEPT ![w] =
                     IF method # "GET" THEN Reply(405, "Method not allowed") ELSE Reply(200, "")]
  /\ pc' = [pc EXCEPT ![w] = "done"]
  /\ UNCHANGED <<mainpc, hwFile, currentHardware, files, currentBootConfig,
                 ps, gp, word, wlog, held, ret, fatal>>

\* Variant that renders PowerState "On" whenever the LED line could be read.
handleSystemGetReportsOn(w, r) ==
  LET read == getPowerState(files, currentHardware)
  IN /\ req' = [req EXCEPT ![w] = r]
     /\ ps' = [ps EXCEPT ![w] = read]
     /\ resp' = [resp EXCEPT ![w] =
                   IF read.err # "nil"
                     THEN Reply(500, "Failed to get power state")
                     ELSE [code |-> 200, msg |-> "", PowerState |-> "On"]]
     /\ pc' = [pc EXCEPT ![w] = "done"]

\* GET of the system resource: reads the LED line and renders the document.
handleSystemGet(w, r) ==
  LET read == getPowerState(files, currentHardware)
  IN /\ req' = [req EXCEPT ![w] = r]
     /\ ps' = [ps EXCEPT ![w] = read]
     /\ resp' = [resp EXCEPT ![w] =
                   IF read.err # "nil"
                     THEN Reply(500, "Failed to get power state")
                     ELSE [code |-> 200, msg |-> "", PowerState |-> read.state]]
     /\ pc' = [pc EXCEPT ![w] = "done"]

(***************************************************************************)
(* PATCH of the system resource.  The handler takes no lock: each word of  *)
(* each field it assigns is a separate store to the shared singleton.      *)
(***************************************************************************)
validTarget(cfg, target) ==
  \E i \in DOMAIN cfg.AllowableValues : cfg.AllowableValues[i] = target

\* Store word n (0: data pointer, 1: length) of string s into a field.
storeWord(g, n, s) == IF n = 0 THEN [g EXCEPT !.ptr = s] ELSE [g EXCEPT !.len = Len(s)]

\* Variant that accepts only the Redfish values of BootSourceOverrideEnabled.
storeEnabledValidated(cfg, boot, n) ==
  IF boot.BootSourceOverrideEnabled \in {"Disabled", "Once", "Continuous"}
    THEN [cfg EXCEPT !.BootSourceOverrideEnabled = storeWord(@, n, boot.BootSourceOverrideEnabled)]
    ELSE cfg

storeEnabled(cfg, boot, n) ==
  [cfg EXCEPT !.BootSourceOverrideEnabled = storeWord(@, n, boot.BootSourceOverrideEnabled)]

\* Variant that takes the allow-list from the request along with the target.
storeTargetWithAllowList(cfg, boot, n) ==
  [cfg EXCEPT !.BootSourceOverrideTarget = storeWord(@, n, boot.BootSourceOverrideTarget),
              !.AllowableValues = IF boot.AllowableValues # <<>> THEN boot.AllowableValues ELSE @]

storeTarget(cfg, boot, n) ==
  [cfg EXCEPT !.BootSourceOverrideTarget = storeWord(@, n, boot.BootSourceOverrideTarget)]

storeMode(cfg, boot, n) ==
  [cfg EXCEPT !.BootSourceOverrideMode = storeWord(@, n, boot.BootSourceOverrideMode)]

\* Body decoding and the req.Boot != nil test.
handleSystemPatch(w, r) ==
  /\ req' = [req EXCEPT ![w] = r]
  /\ UNCHANGED ps
  /\ IF ~r.valid
       THEN /\ resp' = [resp EXCEPT ![w] = Reply(400, "Invalid JSON")]
            /\ pc' = [pc EXCEPT ![w] = "done"]
     ELSE IF ~r.hasBoot
       THEN /\ resp' = [resp EXCEPT ![w] = Reply(204, "")]
            /\ pc' = [pc EXCEPT ![w] = "done"]
     ELSE /\ pc' = [pc EXCEPT ![w] = "enabled"]
          /\ UNCHANGED resp

\* handleSystem routing a GET.
HandleSystemGet(w) ==
  /\ mainpc = "serving"
  /\ pc[w] = "idle"
  /\ handleSystemGet(w, [NoReq EXCEPT !.handler = "system", !.method = "GET"])
  /\ UNCHANGED <<mainpc, hwFile, currentHardware, files, currentBootConfig,
                 gp, word, wlog, held, ret, fatal>>

\* handleSystem routing a PATCH.
HandleSystemPatch(w) ==
  /\ mainpc = "serving"
  /\ pc[w] = "idle"
  /\ \E valid \in BOOLEAN, hasBoot \in BOOLEAN, boot \in PatchBoots :
       /\ valid \/ ~hasBoot
       /\ hasBoot \/ boot = NoBoot
       /\ handleSystemPatch(w, [NoReq EXCEPT !.handler = "system", !.method = "PATCH",
                                            !.valid = valid, !.hasBoot = hasBoot, !.Boot = boot])
  /\ UNCHANGED <<mainpc, hwFile, currentHardware, files, currentBootConfig,
                 gp, word, wlog, held, ret, fatal>>

\* handleSystem with any other method.
HandleSystemOther(w) ==
  /\ mainpc = "serving"
  /\ pc[w] = "idle"
  /\ \E method \in {"POST", "DELETE"} :
       req' = [req EXCEPT ![w] = [NoReq EXCEPT !.handler = "system", !.method = method]]
  /\ resp' = [resp EXCEPT ![w] = Reply(405, "Method not allowed")]
  /\ pc' = [pc EXCEPT ![w] = "done"]
  /\ UNCHANGED <<mainpc, hwFile, currentHardware, files, currentBootConfig,
                 ps, gp, word, wlog, held, ret, fatal>>

\* if req.Boot.BootSourceOverrideEnabled != "" { currentBootConfig... = ... }
StoreEnabled(w) ==
  /\ pc[w] = "enabled"
  /\ IF req[w].Boot.BootSourceOverrideEnabled = ""
       THEN /\ pc' = [pc EXCEPT ![w] = "target"]
            /\ UNCHANGED <<currentBootConfig, word>>
       ELSE /\ currentBootConfig' = storeEnabled(currentBootConfig, req[w].Boot, word[w])
            /\ word' = [word EXCEPT ![w] = 1 - @]
            /\ pc' = [pc EXCEPT ![w] = IF word[w] = 1 THEN "target" ELSE "enabled"]
  /\ UNCHANGED <<mainpc, hwFile, currentHardware, files, req, ps, gp, wlog, held, resp, ret, fatal>>

\* The Target branch: validate against the allow-list, then assign.
StoreTarget(w) ==
  /\ pc[w] = "target"
  /\ IF req[w].Boot.BootSourceOverrideTarget = ""
       THEN /\ pc' = [pc EXCEPT ![w] = "mode"]
            /\ UNCHANGED <<currentBootConfig, word, resp>>
     ELSE IF word[w] = 0 /\ ~validTarget(currentBootConfig, req[w].Boot.BootSourceOverrideTarget)
       THEN /\ resp' = [resp EXCEPT ![w] = Reply(400, "Invalid BootSourceOverrideTarget")]
            /\ pc' = [pc EXCEPT ![w] = "done"]
            /\ UNCHANGED <<currentBootConfig, word>>
     ELSE /\ currentBootConfig' = storeTarget(currentBootConfig, req[w].Boot, word[w])
          /\ word' = [word EXCEPT ![w] = 1 - @]
          /\ pc' = [pc EXCEPT ![w] = IF word[w] = 1 THEN "mode" ELSE "target"]
          /\ UNCHANGED resp
  /\ UNCHANGED <<mainpc, hwFile, currentHardware, files, req, ps, gp, wlog, held, ret, fatal>>

\* if req.Boot.BootSourceOverrideMode != "" { ... }, then 204 No Content.
\* Variant that assigns the Mode of the request whether it is present or not.
StoreModeUnconditional(w) ==
  /\ pc[w] = "mode"
  /\ currentBootConfig' = storeMode(currentBootConfig, req[w].Boot, word[w])
  /\ word' = [word EXCEPT ![w] = 1 - @]
  /\ IF word[w] = 1
       THEN /\ resp' = [resp EXCEPT ![w] = Reply(204, "")]
            /\ pc' = [pc EXCEPT ![w] = "done"]
       ELSE UNCHANGED <<resp, pc>>
  /\ UNCHANGED <<mainpc, hwFile, currentHardware, files, req, ps, gp, wlog, held, ret, fatal>>

StoreMode(w) ==
  /\ pc[w] = "mode"
  /\ IF req[w].Boot.BootSourceOverrideMode = ""
       THEN /\ resp' = [resp EXCEPT ![w] = Reply(204, "")]
            /\ pc' = [pc EXCEPT ![w] = "done"]
            /\ UNCHANGED <<currentBootConfig, word>>
     ELSE /\ currentBootConfig' = storeMode(currentBootConfig, req[w].Boot, word[w])
          /\ word' = [word EXCEPT ![w] = 1 - @]
          /\ IF word[w] = 1
               THEN /\ resp' = [resp EXCEPT ![w] = Reply(204, "")]
                    /\ pc' = [pc EXCEPT ![w] = "done"]
               ELSE UNCHANGED <<resp, pc>>
  /\ UNCHANGED <<mainpc, hwFile, currentHardware, files, req, ps, gp, wlog, held, ret, fatal>>

(***************************************************************************)
(* Direct calls of the driver functions, as the unit tests make them:      *)
(* the function is called with arguments of the caller's choice and its    *)
(* result is kept; no request is involved.                                 *)
(***************************************************************************)
DetectContents ==
  HwContents \cup
  {<<"\t", "a", "l", "p", "h", "a", " ", "\r", "\n">>,
   <<"b", "e", "t", "a">>,
   <<"A", "L", "P", "H", "A">>,
   <<"a", "l", "p", "h", "a", " ", "b", "e", "t", "a">>,
   <<"a", "l", " ", "p", "h", "a">>,
   <<"p", "c", "i">>,
   <<"p", "c", "i", "e", "x">>,
   <<" ", "\n">>,
   <<>>}

LineContents ==
  {<<"0">>, <<"1">>, <<"0", "\n">>, <<" ", "4", "2", " ">>, <<"-", "1">>, <<"+", "7">>,
   <<"x", "y", "z">>, <<"1", " ", "2">>, <<>>, NoFile}

\* A profile whose power-LED reference a test has blanked.
HWNoLED == [HWBeta EXCEPT !.GPIOPowerLED = ""]

TestHardware == {HWAlpha, HWBeta, HWPcie, HWNoLED}

ReadPaths == {"", "/sys/class/gpio/gpio504/value", "/sys/class/gpio/gpio503/value"}

WritePaths == {"", "/sys/class/gpio/gpio503/value"}

Durations == {0, 100, 800}

CallReadGPIO(w) ==
  /\ pc[w] = "idle"
  /\ \E path \in ReadPaths :
       /\ req' = [req EXCEPT ![w] = [NoReq EXCEPT !.handler = "readGPIO"]]
       /\ gp' = [gp EXCEPT ![w] = [path |-> path, duration |-> 0]]
       /\ ret' = [ret EXCEPT ![w] = readGPIO(files, path)]
  /\ pc' = [pc EXCEPT ![w] = "done"]
  /\ UNCHANGED <<mainpc, hwFile, currentHardware, files, currentBootConfig,
                 ps, word, wlog, held, resp, fatal>>

CallGetPowerState(w) ==
  /\ pc[w] = "idle"
  /\ \E hw \in TestHardware :
       /\ req' = [req EXCEPT ![w] = [NoReq EXCEPT !.handler = "getPowerState"]]
       /\ gp' = [gp EXCEPT ![w] = [path |-> hw.GPIOPowerLED, duration |-> 0]]
       /\ ps' = [ps EXCEPT ![w] = getPowerState(files, hw)]
  /\ pc' = [pc EXCEPT ![w] = "done"]
  /\ UNCHANGED <<mainpc, hwFile, currentHardware, files, currentBootConfig,
                 word, wlog, held, resp, ret, fatal>>

CallWriteGPIO(w) ==
  /\ pc[w] = "idle"
  /\ \E path \in WritePaths, duration \in Durations :
       /\ req' = [req EXCEPT ![w] = [NoReq EXCEPT !.handler = "writeGPIO"]]
       /\ gp' = [gp EXCEPT ![w] = [path |-> path, duration |-> duration]]
  /\ pc' = [pc EXCEPT ![w] = "assert"]
  /\ UNCHANGED <<mainpc, hwFile, currentHardware, files, currentBootConfig,
                 ps, word, wlog, held, resp, ret, fatal>>

(***************************************************************************)
(* Specifications.                                                         *)
(***************************************************************************)
Next ==
  \/ Main
  \/ EnvLED
  \/ \E w \in Workers : HandleStatic(w)
  \/ \E w \in Workers : HandleSystemGet(w)
  \/ \E w \in Workers : HandleSystemOther(w)
  \/ \E w \in Workers : HandleSystemPatch(w)
  \/ \E w \in Workers : StoreEnabled(w)
  \/ \E w \in Workers : StoreTarget(w)
  \/ \E w \in Workers : StoreMode(w)
  \/ \E w \in Workers : HandleReset(w)
  \/ \E w \in Workers : WriteAssert(w)
  \/ \E w \in Workers : Hold(w)
  \/ \E w \in Workers : WriteRelease(w)
  \/ \E w \in Workers : Return(w)

\* The whole service.
Spec == Init /\ [][Next]_vars

\* The power side: requests that read or write GPIO lines, with the LED
\* line changing underneath.
NextPower ==
  \/ Main
  \/ EnvLED
  \/ \E w \in Workers : HandleSystemGet(w)
  \/ \E w \in Workers : HandleReset(w)
  \/ \E w \in Workers : WriteAssert(w)
  \/ \E w \in Workers : Hold(w)
  \/ \E w \in Workers : WriteRelease(w)
  \/ \E w \in Workers : Return(w)

SpecPower == Init /\ [][NextPower]_vars

\* SpecPower with the scheduling the Go runtime gives a handler's goroutine:
\* a sleeping goroutine is woken when its timer fires, and a runnable one
\* gets to make its os.WriteFile call, which returns.
SpecPowerFair ==
  /\ SpecPower
  /\ \A w \in Workers : WF_vars(Hold(w)) /\ WF_vars(WriteRelease(w))

\* The boot override side: requests to the system resource and the
\* read-only documents, on quiet GPIO lines.
InitBoot ==
  /\ Init
  /\ files = [p \in Paths |-> <<"0">>]

NextBoot ==
  \/ Main
  \/ \E w \in Workers : HandleStatic(w)
  \/ \E w \in Workers : HandleSystemGet(w)
  \/ \E w \in Workers : HandleSystemOther(w)
  \/ \E w \in Workers : HandleSystemPatch(w)
  \/ \E w \in Workers : StoreEnabled(w)
  \/ \E w \in Workers : StoreTarget(w)
  \/ \E w \in Workers : StoreMode(w)
  \/ \E w \in Workers : Return(w)

SpecBoot == InitBoot /\ [][NextBoot]_vars

\* One request at a time: a goroutine takes a step only while every other
\* goroutine is idle, so requests follow one another without overlapping.
Quiet(w) == \A v \in Workers \ {w} : pc[v] = "idle"

NextSerial ==
  \/ Main
  \/ EnvLED
  \/ \E w \in Workers : Quiet(w) /\ HandleStatic(w)
  \/ \E w \in Workers : Quiet(w) /\ HandleSystemGet(w)
  \/ \E w \in Workers : Quiet(w) /\ HandleSystemOther(w)
  \/ \E w \in Workers : Quiet(w) /\ HandleSystemPatch(w)
  \/ \E w \in Workers : Quiet(w) /\ StoreEnabled(w)
  \/ \E w \in Workers : Quiet(w) /\ StoreTarget(w)
  \/ \E w \in Workers : Quiet(w) /\ StoreMode(w)
  \/ \E w \in Workers : Quiet(w) /\ HandleReset(w)
  \/ \E w \in Workers : Quiet(w) /\ WriteAssert(w)
  \/ \E w \in Workers : Quiet(w) /\ Hold(w)
  \/ \E w \in Workers : Quiet(w) /\ WriteRelease(w)
  \/ \E w \in Workers : Quiet(w) /\ Return(w)

SpecSerial == Init /\ [][NextSerial]_vars

\* The driver on its own: detection at startup and direct calls, one call
\* at a time, over a wider choice of file contents.
InitDriver ==
  /\ mainpc = "start"
  /\ hwFile \in DetectContents
  /\ currentHardware = NilHardware
  /\ \E c \in LineContents : files = [p \in Paths |-> c]
  /\ currentBootConfig =
       [BootSourceOverrideEnabled |-> GoString("Disabled"),
        BootSourceOverrideMode |-> GoString("UEFI"),
        BootSourceOverrideTarget |-> GoString("None"),
        AllowableValues |-> AllowableTargets]
  /\ pc = [w \in Workers |-> "idle"]
  /\ req = [w \in Workers |-> NoReq]
  /\ ps = [w \in Workers |-> NoPs]
  /\ gp = [w \in Workers |-> NoGp]
  /\ word = [w \in Workers |-> 0]
  /\ wlog = [w \in Workers |-> <<>>]
  /\ held = [w \in Workers |-> 0]
  /\ resp = [w \in Workers |-> NoResp]
  /\ ret = [w \in Workers |-> NoRet]
  /\ fatal = ""

NextDriver ==
  \/ Main
  \/ \E w \in Workers : Quiet(w) /\ CallReadGPIO(w)
  \/ \E w \in Workers : Quiet(w) /\ CallGetPowerState(w)
  \/ \E w \in Workers : Quiet(w) /\ CallWriteGPIO(w)
  \/ \E w \in Workers : Quiet(w) /\ WriteAssert(w)
  \/ \E w \in Workers : Quiet(w) /\ Hold(w)
  \/ \E w \in Workers : Quiet(w) /\ WriteRelease(w)
  \/ \E w \in Workers : Quiet(w) /\ Return(w)

SpecDriver == InitDriver /\ [][NextDriver]_vars

\* Concurrent pulses: writeGPIO called from both goroutines with no
\* ordering between their steps.  A call that returned an error is not
\* followed by another call of its goroutine, so that a failed pulse stays
\* on record.
NextPulses ==
  \/ \E w \in Workers : CallWriteGPIO(w)
  \/ \E w \in Workers : WriteAssert(w)
  \/ \E w \in Workers : Hold(w)
  \/ \E w \in Workers : WriteRelease(w)
  \/ \E w \in Workers : ret[w].err = "nil" /\ Return(w)

SpecPulses == Init /\ [][NextPulses]_vars

(***************************************************************************)
(* Properties.                                                             *)
(***************************************************************************)
IsPatch(w) ==
  req[w].handler = "system" /\ req[w].method = "PATCH" /\ req[w].valid /\ req[w].hasBoot

IsReset(w, t) ==
  req[w].handler = "reset" /\ req[w].method = "POST" /\ req[w].valid /\ req[w].ResetType = t

\* Goroutine w takes the step.
Moves(w) == pc'[w] # pc[w] \/ word'[w] # word[w]

InvalidTargetPatch(w) ==
  /\ IsPatch(w)
  /\ req[w].Boot.BootSourceOverrideTarget # ""
  /\ ~validTarget(currentBootConfig, req[w].Boot.BootSourceOverrideTarget)

\* C1: a PATCH whose Target is present and outside the allow-list is answered
\* 400 and none of its steps changes the store, whatever else it carries.
C1_InvalidTargetLeavesStoreUnchanged ==
  [][\A w \in Workers :
       (InvalidTargetPatch(w) /\ Moves(w)) =>
         /\ currentBootConfig' = currentBootConfig
         /\ (pc'[w] = "done" => resp'[w] = Reply(400, "Invalid BootSourceOverrideTarget"))]_vars

\* C2: whenever no goroutine is between the two word stores of a Target
\* assignment, the stored Target is a member of the allow-list.
C2_TargetAlwaysAllowable ==
  (\A w \in Workers : ~(pc[w] = "target" /\ word[w] = 1)) =>
    validTarget(currentBootConfig, StringOf(currentBootConfig.BootSourceOverrideTarget))

\* C3: the stored allow-list always equals its initial value.
C3_AllowableTargetsNeverChange ==
  currentBootConfig.AllowableValues = AllowableTargets

C3_Witness ==
  \E w \in Workers :
    /\ pc[w] = "done"
    /\ IsPatch(w)
    /\ req[w].Boot.AllowableValues # <<>>
    /\ resp[w].code = 204
    /\ StringOf(currentBootConfig.BootSourceOverrideTarget) = req[w].Boot.BootSourceOverrideTarget

SetsBoth(w) ==
  /\ pc[w] = "done"
  /\ IsPatch(w)
  /\ resp[w].code = 204
  /\ req[w].Boot.BootSourceOverrideEnabled # ""
  /\ req[w].Boot.BootSourceOverrideTarget # ""

\* C4: when two PATCH requests that both set Enabled and Target have both
\* been answered and the stored Enabled and Target are whole strings, they
\* are the pair of one of the two requests, never one field from each.
C4_PatchesDoNotInterleave ==
  \A w \in Workers, v \in Workers :
    (/\ w # v /\ SetsBoth(w) /\ SetsBoth(v)
     /\ StringOf(currentBootConfig.BootSourceOverrideEnabled) # Torn
     /\ StringOf(currentBootConfig.BootSourceOverrideTarget) # Torn) =>
      \E u \in {w, v} :
        /\ StringOf(currentBootConfig.BootSourceOverrideEnabled) = req[u].Boot.BootSourceOverrideEnabled
        /\ StringOf(currentBootConfig.BootSourceOverrideTarget) = req[u].Boot.BootSourceOverrideTarget

\* C5: a state-dependent action whose power state read failed is answered
\* with a failure and writes no line.
C5_ReadFailureFailsDispatch ==
  \A w \in Workers :
    (/\ pc[w] = "done"
     /\ \E t \in {"On", "ForceOff", "GracefulShutdown"} : IsReset(w, t)
     /\ ps[w].err \in {"CapabilityAbsent", "IOError", "MalformedValue"}) =>
      /\ resp[w].code = 500
      /\ wlog[w] = <<>>

\* The trace a writeGPIO(path, duration) call leaves in a finished request:
\* both writes done, the assert write failed, or the release write failed.
Wr(path, value, ok) == [path |-> path, value |-> value, ok |-> ok]

PulseDone(w, path, duration) ==
  /\ resp[w] = Reply(204, "")
  /\ wlog[w] = <<Wr(path, "1", TRUE), Wr(path, "0", TRUE)>>
  /\ held[w] = duration

PulseFailed(w, path, duration) ==
  /\ resp[w].code = 500
  /\ \/ wlog[w] = <<Wr(path, "1", FALSE)>> /\ held[w] = 0
     \/ wlog[w] = <<Wr(path, "1", TRUE), Wr(path, "0", FALSE)>> /\ held[w] = duration

NoOp(w) == resp[w] = Reply(204, "") /\ wlog[w] = <<>> /\ held[w] = 0

\* C6: a finished "On" request that read the state On wrote nothing and
\* answered 204; one that read Off made one 800 ms pulse on the power line
\* (write 1, then write 0) and wrote no other line, or stopped at the write
\* that failed.
C6_PowerOnPressesOnlyWhenOff ==
  \A w \in Workers :
    (pc[w] = "done" /\ IsReset(w, "On")) =>
      /\ ps[w].state = "On" => NoOp(w)
      /\ ps[w].state = "Off" =>
           \/ PulseDone(w, currentHardware.GPIOPower, 800)
           \/ PulseFailed(w, currentHardware.GPIOPower, 800)

C6_Witness ==
  \E w \in Workers :
    /\ pc[w] = "done" /\ IsReset(w, "On") /\ ps[w].state = "Off"
    /\ PulseDone(w, "/sys/class/gpio/gpio503/value", 800)

\* C7: a finished ForceOff request that read the state On made one 1000 ms
\* press on the power line; one that read Off wrote nothing and answered 204.
C7_ForceOffLongPressesOnlyWhenOn ==
  \A w \in Workers :
    (pc[w] = "done" /\ IsReset(w, "ForceOff")) =>
      /\ ps[w].state = "Off" => NoOp(w)
      /\ ps[w].state = "On" =>
           \/ PulseDone(w, currentHardware.GPIOPower, 1000)
           \/ PulseFailed(w, currentHardware.GPIOPower, 1000)

C7_Witness ==
  \E w \in Workers :
    /\ pc[w] = "done" /\ IsReset(w, "ForceOff") /\ ps[w].state = "On"
    /\ PulseDone(w, "/sys/class/gpio/gpio503/value", 1000)

\* C8: a finished GracefulShutdown request that read the state On made one
\* 800 ms press on the power line; one that read Off wrote nothing and
\* answered 204.
C8_GracefulShutdownPressesOnlyWhenOn ==
  \A w \in Workers :
    (pc[w] = "done" /\ IsReset(w, "GracefulShutdown")) =>
      /\ ps[w].state = "Off" => NoOp(w)
      /\ ps[w].state = "On" =>
           \/ PulseDone(w, currentHardware.GPIOPower, 800)
           \/ PulseFailed(w, currentHardware.GPIOPower, 800)

C8_Witness ==
  \E w \in Workers :
    /\ pc[w] = "done" /\ IsReset(w, "GracefulShutdown") /\ ps[w].state = "On"
    /\ PulseDone(w, "/sys/class/gpio/gpio503/value", 800)

\* C9: a ForceRestart request never reads the LED line and writes only the
\* reset line of the active profile; when finished it has written 1 and then
\* 0 to it, or stopped at the write that failed, whatever the LED line holds.
C9_ForceRestartPulsesResetUnconditionally ==
  \A w \in Workers :
    IsReset(w, "ForceRestart") =>
      /\ ps[w] = NoPs
      /\ \A i \in DOMAIN wlog[w] : wlog[w][i].path = currentHardware.GPIOReset
      /\ currentHardware.GPIOReset \notin
           {currentHardware.GPIOPower, currentHardware.GPIOPowerLED}
      /\ pc[w] = "done" =>
           \/ PulseDone(w, currentHardware.GPIOReset, 800)
           \/ PulseFailed(w, currentHardware.GPIOReset, 800)

C9_Witness ==
  \E w \in Workers :
    /\ pc[w] = "done" /\ IsReset(w, "ForceRestart")
    /\ currentHardware = HWAlpha
    /\ getPowerState(files, currentHardware).state = "Off"
    /\ PulseDone(w, "/sys/class/gpio/gpio507/value", 800)

\* C10: a request naming none of "On", "ForceOff", "GracefulShutdown" and
\* "ForceRestart" is answered 400 Invalid ResetType and writes no line.
C10_UnknownActionRejected ==
  \A w \in Workers :
    (\E t \in ResetTypes \ {"On", "ForceOff", "GracefulShutdown", "ForceRestart"} : IsReset(w, t)) =>
      /\ pc[w] = "done"
      /\ resp[w] = Reply(400, "Invalid ResetType")
      /\ wlog[w] = <<>>
      /\ ps[w] = NoPs

C10_Witness ==
  \E w \in Workers :
    /\ pc[w] = "done" /\ IsReset(w, "Sleep")
    /\ resp[w].code = 400
    /\ getPowerState(files, currentHardware).state = "Off"

(***************************************************************************)
(* The GPIO driver called directly (SpecDriver).                           *)
(***************************************************************************)
IsCall(w, h) == req[w].handler = h

PowerLine == "/sys/class/gpio/gpio503/value"

LEDLine == "/sys/class/gpio/gpio504/value"

C12_AssertHoldRelease ==
  \A w \in Workers :
    IsCall(w, "writeGPIO") =>
      LET asserted == <<Wr(gp[w].path, "1", TRUE)>>
          slept == IF gp[w].duration > 0 THEN gp[w].duration ELSE 0
      IN /\ pc[w] = "assert" => wlog[w] = <<>> /\ held[w] = 0
         /\ pc[w] = "hold" => wlog[w] = asserted /\ held[w] = 0 /\ gp[w].duration > 0
         /\ pc[w] = "release" => wlog[w] = asserted /\ held[w] = slept
         /\ (pc[w] = "done" /\ ret[w].err = "nil") =>
              /\ wlog[w] = Append(asserted, Wr(gp[w].path, "0", TRUE))
              /\ held[w] = slept

C12_Witness ==
  \E w \in Workers :
    /\ pc[w] = "done" /\ IsCall(w, "writeGPIO") /\ ret[w].err = "nil"
    /\ gp[w] = [path |-> PowerLine, duration |-> 100]
    /\ held[w] = 100
    /\ wlog[w] = <<Wr(PowerLine, "1", TRUE), Wr(PowerLine, "0", TRUE)>>

\* C13: writeGPIO stops at its first failure and undoes nothing.  With an
\* empty path it returns CapabilityAbsent and writes nothing.  When the
\* assert write fails it returns IOError with no hold and no release, and
\* every line keeps its value.  When the release write fails it returns
\* IOError, the line still holds 1, and no further write is made.
C13_ShortCircuitNoRollback ==
  [][\A w \in Workers :
       IsCall(w, "writeGPIO") =>
         /\ (pc[w] = "assert" /\ gp[w].path = "" /\ Moves(w)) =>
              /\ pc'[w] = "done"
              /\ ret'[w].err = "CapabilityAbsent"
              /\ wlog'[w] = <<>> /\ held'[w] = 0
              /\ files' = files
         /\ (pc[w] = "assert" /\ gp[w].path # "" /\ pc'[w] = "done") =>
              /\ ret'[w].err = "IOError"
              /\ wlog'[w] = <<Wr(gp[w].path, "1", FALSE)>> /\ held'[w] = 0
              /\ files' = files
         /\ (pc[w] = "assert" /\ Moves(w) /\ pc'[w] # "done") =>
              wlog'[w] = <<Wr(gp[w].path, "1", TRUE)>>
         /\ (pc[w] = "release" /\ pc'[w] = "done" /\ ret'[w].err # "nil") =>
              /\ ret'[w].err = "IOError"
              /\ wlog'[w] = <<Wr(gp[w].path, "1", TRUE), Wr(gp[w].path, "0", FALSE)>>
              /\ files' = files
              /\ files'[gp[w].path] = <<"1">>
         /\ pc[w] = "done" =>
              /\ pc'[w] \in {"done", "idle"}
              /\ files' = files
              /\ wlog'[w] \in {wlog[w], <<>>}
    ]_vars

C13_Witness ==
  \E w \in Workers :
    /\ pc[w] = "done" /\ IsCall(w, "writeGPIO") /\ ret[w].err = "IOError"
    /\ wlog[w] = <<Wr(PowerLine, "1", TRUE), Wr(PowerLine, "0", FALSE)>>
    /\ files[PowerLine] = <<"1">>

IsTagged(c, tag) ==
  \E i \in 1..Len(c) :
    /\ i + Len(tag) - 1 <= Len(c)
    /\ SubSeq(c, i, i + Len(tag) - 1) = tag
    /\ \A k \in 1..Len(c) : (k < i \/ k > i + Len(tag) - 1) => IsSpace(c[k])

Detected(hw) == mainpc = "serving" /\ currentHardware = hw /\ fatal = ""

Refused(err) == mainpc = "exited" /\ currentHardware = NilHardware /\ fatal = err

C19_DetectionByTrimmedTag ==
  mainpc # "start" =>
    IF hwFile = NoFile THEN Refused("ConfigUnreadable")
    ELSE IF IsTagged(hwFile, <<"a", "l", "p", "h", "a">>) THEN Detected(HWAlpha)
    ELSE IF IsTagged(hwFile, <<"b", "e", "t", "a">>) THEN Detected(HWBeta)
    ELSE IF IsTagged(hwFile, <<"p", "c", "i", "e">>) THEN Detected(HWPcie)
    ELSE Refused("UnknownHardware")

C19_Witness ==
  /\ hwFile = <<"\t", "a", "l", "p", "h", "a", " ", "\r", "\n">>
  /\ Detected(HWAlpha)

\* C20: readGPIO returns CapabilityAbsent for an empty path, IOError when
\* the file cannot be read, MalformedValue when the content without its
\* surrounding whitespace is not a decimal integer, and otherwise that
\* integer as it stands ("1" is 1, "0\n" is 0, " 42 " is 42, "-1" is -1).
Expect(value, err) == [value |-> value, err |-> err]

C20_ReadLine ==
  \A w \in Workers :
    (pc[w] = "done" /\ IsCall(w, "readGPIO")) =>
      IF gp[w].path = ""
        THEN ret[w] = Expect(0, "CapabilityAbsent")
        ELSE LET c == files[gp[w].path]
             IN CASE c = NoFile -> ret[w] = Expect(0, "IOError")
                  [] c \in {<<"x", "y", "z">>, <<"1", " ", "2">>, <<>>} ->
                       ret[w] = Expect(0, "MalformedValue")
                  [] c \in {<<"0">>, <<"0", "\n">>} -> ret[w] = Expect(0, "nil")
                  [] c = <<"1">> -> ret[w] = Expect(1, "nil")
                  [] c = <<" ", "4", "2", " ">> -> ret[w] = Expect(42, "nil")
                  [] c = <<"-", "1">> -> ret[w] = Expect(-1, "nil")
                  [] c = <<"+", "7">> -> ret[w] = Expect(7, "nil")

C20_Witness ==
  \E w \in Workers :
    /\ pc[w] = "done" /\ IsCall(w, "readGPIO")
    /\ files[LEDLine] = <<" ", "4", "2", " ">>
    /\ ret[w] = Expect(42, "nil")

(***************************************************************************)
(* Frame of a PATCH, the active profile, and a pulse once started.         *)
(***************************************************************************)
BootFields == {"BootSourceOverrideEnabled", "BootSourceOverrideMode", "BootSourceOverrideTarget"}

\* C15: no step of a PATCH changes a field of {Enabled, Mode, Target} that
\* its request does not carry: such a field has after the step the value it
\* had before; a patch carrying only Target = "Pxe" sets Target and leaves
\* Enabled and Mode as they were.
C15_AbsentFieldsKept ==
  [][\A w \in Workers :
       (IsPatch(w) /\ Moves(w)) =>
         \A f \in BootFields :
           req[w].Boot[f] = "" => currentBootConfig'[f] = currentBootConfig[f]
    ]_vars

C15_Witness ==
  \E w \in Workers :
    /\ pc[w] = "done" /\ IsPatch(w) /\ resp[w].code = 204
    /\ req[w].Boot = [NoBoot EXCEPT !.BootSourceOverrideTarget = "Pxe",
                                    !.AllowableValues = <<"Pxe", "Bogus">>]
    /\ StringOf(currentBootConfig.BootSourceOverrideTarget) = "Pxe"
    /\ StringOf(currentBootConfig.BootSourceOverrideEnabled) = "Disabled"
    /\ StringOf(currentBootConfig.BootSourceOverrideMode) = "UEFI"

\* C16: the hardware profile is set once, by main before it serves: the
\* process serves only with one of the three profiles active, a failed
\* detection ends it for good, a request is handled only while serving, and
\* once serving no step changes the active profile.
C16_ProfileFixedAtStartup ==
  [][/\ mainpc' = "serving" => currentHardware' \in {HWAlpha, HWBeta, HWPcie}
     /\ mainpc # "start" => mainpc' = mainpc /\ currentHardware' = currentHardware
     /\ mainpc' = "exited" => currentHardware' = NilHardware /\ fatal' # ""
     /\ \A w \in Workers :
          pc'[w] # "idle" => mainpc = "serving" /\ currentHardware # NilHardware
    ]_vars

C16_Witness ==
  \E w \in Workers :
    /\ mainpc = "serving" /\ currentHardware = HWPcie
    /\ pc[w] = "done" /\ IsReset(w, "ForceRestart") /\ resp[w].code = 204

\* C17: one reset request makes at most one assert write and at most one
\* release write, the release only after a successful assert; a failed
\* write is the last write of its request, which is answered 500.
C17_NoRetry ==
  \A w \in Workers :
    /\ Len(wlog[w]) <= 2
    /\ Len(wlog[w]) >= 1 => wlog[w][1].value = "1"
    /\ Len(wlog[w]) = 2 => wlog[w][1].ok /\ wlog[w][2].value = "0"
    /\ \A i \in 1..Len(wlog[w]) :
         ~wlog[w][i].ok => i = Len(wlog[w]) /\ pc[w] = "done" /\ resp[w].code = 500

C17_Witness ==
  \E w \in Workers :
    /\ pc[w] = "done" /\ IsReset(w, "ForceOff") /\ resp[w].code = 500
    /\ Len(wlog[w]) = 2 /\ wlog[w][1].ok /\ ~wlog[w][2].ok

\* C18: once the assert write of a pulse has succeeded, the release write
\* is eventually attempted; between the two the request can only sleep its
\* whole duration and then write: no step ends it or shortens the hold.
C18_PulseRunsToRelease ==
  /\ \A w \in Workers :
       (pc[w] \in {"hold", "release"}) ~> (pc[w] = "done" /\ Len(wlog[w]) = 2)
  /\ [][\A w \in Workers :
          /\ pc[w] = "hold" =>
               /\ pc'[w] \in {"hold", "release"}
               /\ pc'[w] = "release" => held'[w] = gp[w].duration
          /\ pc[w] = "release" =>
               /\ pc'[w] \in {"release", "done"}
               /\ held'[w] = held[w]
               /\ pc'[w] = "done" => Len(wlog'[w]) = 2 /\ wlog'[w][2].value = "0"
       ]_vars

C18_Witness ==
  \E w \in Workers :
    /\ pc[w] = "done" /\ IsReset(w, "ForceOff")
    /\ held[w] = 1000
    /\ wlog[w] = <<Wr(currentHardware.GPIOPower, "1", TRUE), Wr(currentHardware.GPIOPower, "0", TRUE)>>

(***************************************************************************)
(* Press durations, rejected requests, the reported power state.           *)
(***************************************************************************)
Pressed(w) == pc[w] = "done" /\ req[w].handler = "reset" /\ Len(wlog[w]) = 2

\* C21: a request that pressed did so on the line and for the time of its
\* action: ForceRestart on the active profile's reset line for 800 ms, On
\* and GracefulShutdown on its power line for 800 ms, ForceOff on its power
\* line for 1000 ms; the time slept between the two writes is never less
\* than that hold, and a long press lasts 200 ms more than a short one.
C21_PressDurations ==
  /\ \A w \in Workers :
       Pressed(w) =>
         /\ IsReset(w, "ForceRestart") =>
              gp[w] = [path |-> currentHardware.GPIOReset, duration |-> 800]
         /\ (IsReset(w, "On") \/ IsReset(w, "GracefulShutdown")) =>
              gp[w] = [path |-> currentHardware.GPIOPower, duration |-> 800]
         /\ IsReset(w, "ForceOff") =>
              gp[w] = [path |-> currentHardware.GPIOPower, duration |-> 1000]
         /\ wlog[w][1].path = gp[w].path /\ wlog[w][2].path = gp[w].path
         /\ held[w] >= gp[w].duration
  /\ \A w, v \in Workers :
       (Pressed(w) /\ Pressed(v) /\ IsReset(w, "ForceOff") /\ IsReset(v, "GracefulShutdown")) =>
         held[w] - held[v] = 200

C21_Witness ==
  \E w, v \in Workers :
    /\ Pressed(w) /\ IsReset(w, "ForceOff") /\ resp[w].code = 204 /\ held[w] = 1000
    /\ Pressed(v) /\ IsReset(v, "GracefulShutdown") /\ resp[v].code = 204 /\ held[v] = 800

BadMethod(r) ==
  \/ r.handler = "reset" /\ r.method # "POST"
  \/ r.handler \in StaticHandlers /\ r.method # "GET"

BadBody(r) ==
  /\ ~r.valid
  /\ \/ r.handler = "reset" /\ r.method = "POST"
     \/ r.handler = "system" /\ r.method = "PATCH"

NoEffect(w) ==
  /\ files' = files
  /\ currentBootConfig' = currentBootConfig
  /\ wlog'[w] = <<>>

\* C22: a reset request whose method is not POST and a non-GET request to
\* a read-only document are answered 405, and a reset or PATCH request
\* whose body is not JSON is answered 400, in the one step that receives
\* them; neither that step nor the return writes a line or changes the boot
\* override store.
C22_RejectedWithoutEffect ==
  [][\A w \in Workers :
       /\ (pc[w] = "idle" /\ pc'[w] # "idle" /\ BadMethod(req'[w])) =>
            pc'[w] = "done" /\ resp'[w] = Reply(405, "Method not allowed") /\ NoEffect(w)
       /\ (pc[w] = "idle" /\ pc'[w] # "idle" /\ BadBody(req'[w])) =>
            pc'[w] = "done" /\ resp'[w] = Reply(400, "Invalid JSON") /\ NoEffect(w)
       /\ (pc[w] = "done" /\ Moves(w) /\ (BadMethod(req[w]) \/ BadBody(req[w]))) =>
            pc'[w] = "idle" /\ NoEffect(w)
    ]_vars

C22_Witness ==
  \E w \in Workers :
    /\ pc[w] = "done"
    /\ req[w].handler = "reset" /\ req[w].method = "GET" /\ req[w].ResetType = "ForceRestart"
    /\ resp[w].code = 405
    /\ wlog[w] = <<>>

IsSystemGet(r) == r.handler = "system" /\ r.method = "GET"

GetOnAlphaLedHigh(w) ==
  /\ pc[w] = "idle" /\ pc'[w] = "done" /\ IsSystemGet(req'[w])
  /\ currentHardware = HWAlpha
  /\ files[LEDLine] = <<"1">>

C24_EnabledAndModeWrittenThrough ==
  [][\A w \in Workers :
       (IsPatch(w) /\ Moves(w)) =>
         \A f \in {"BootSourceOverrideEnabled", "BootSourceOverrideMode"} :
           /\ req[w].Boot[f] = "" => currentBootConfig'[f] = currentBootConfig[f]
           /\ (req[w].Boot[f] # "" /\ pc'[w] = "done" /\ resp'[w].code = 204) =>
                currentBootConfig'[f] = GoString(req[w].Boot[f])
    ]_vars

C24_Witness ==
  \E w \in Workers :
    /\ pc[w] = "done" /\ IsPatch(w) /\ resp[w].code = 204
    /\ req[w].Boot.BootSourceOverrideEnabled = "Sometimes"
    /\ req[w].Boot.BootSourceOverrideMode = "xyz"
    /\ StringOf(currentBootConfig.BootSourceOverrideEnabled) = "Sometimes"
    /\ StringOf(currentBootConfig.BootSourceOverrideMode) = "xyz"
    /\ StringOf(currentBootConfig.BootSourceOverrideTarget) = "None"

(***************************************************************************)
(* Concurrent pulses.                                                      *)
(***************************************************************************)
Holding(w, path) ==
  pc[w] = "hold" /\ gp[w].path = path /\ wlog[w] = <<Wr(path, "1", TRUE)>>

\* C25: nothing keeps a release write off a line that another request is
\* holding: whenever one request is in its hold on a line and another is
\* about to release the same line, the release can be written, setting the
\* line to 0 while the first request is still in its hold.
C25_ReleaseCanCutAHold ==
  \A w \in Workers : \A v \in Workers \ {w} :
    (Holding(w, gp[w].path) /\ pc[v] = "release" /\ gp[v].path = gp[w].path) =>
      ENABLED (/\ WriteRelease(v)
               /\ files'[gp[w].path] = <<"0">>
               /\ pc'[w] = "hold")

C25_Witness ==
  \E w \in Workers : \E v \in Workers \ {w} :
    /\ Holding(w, currentHardware.GPIOPower)
    /\ pc[v] = "done" /\ resp[v].code = 204
    /\ wlog[v] = <<Wr(currentHardware.GPIOPower, "1", TRUE), Wr(currentHardware.GPIOPower, "0", TRUE)>>
    /\ files[currentHardware.GPIOPower] = <<"0">>

Pressing(w) ==
  /\ IsReset(w, "On")
  /\ ps[w] = [state |-> "Off", err |-> "nil"]
  /\ pc[w] \in {"hold", "release"}
  /\ wlog[w] = <<Wr(currentHardware.GPIOPower, "1", TRUE)>>

\* C26: of two "On" requests handled at the same time while the LED line
\* reads Off, at most one presses the power line: never are both in a
\* press that each started after reading Off.
C26_AtMostOnePress ==
  \A w \in Workers : \A v \in Workers \ {w} : ~(Pressing(w) /\ Pressing(v))

MidPulse(w, path) == pc[w] \in {"hold", "release"} /\ gp[w].path = path

Returned(w, path) == pc[w] = "done" /\ IsCall(w, "writeGPIO") /\ gp[w].path = path

\* C27: when no pulse on a line is between its two writes, no pulse on it
\* has failed and at least one has returned, the line holds 0, however the
\* steps of the concurrent pulses were interleaved.
C27_QuiescentRelease ==
  \A path \in WritePaths \ {""} :
    (/\ \E w \in Workers : Returned(w, path)
     /\ \A w \in Workers : Returned(w, path) => ret[w].err = "nil"
     /\ \A w \in Workers : ~MidPulse(w, path)) =>
      files[path] = <<"0">>

C27_Witness ==
  \E w \in Workers : \E v \in Workers \ {w} :
    /\ Returned(w, PowerLine) /\ ret[w].err = "nil" /\ gp[w].duration = 800
    /\ Returned(v, PowerLine) /\ ret[v].err = "nil" /\ gp[v].duration = 0
    /\ files[PowerLine] = <<"0">>

(***************************************************************************)
(* Which lines a request writes.                                           *)
(***************************************************************************)
ButtonLines == {currentHardware.GPIOPower, currentHardware.GPIOReset}

\* C28: on every profile, no step of a request changes the power LED line;
\* a step changes a line only if its request is a reset action, and then
\* only the one line that request presses, which is the active profile's
\* power line or its reset line; all writes of one request go to that one
\* line; requests other than reset actions write nothing; and no step of a
\* reset action changes the boot override store.
C28_WritesConfinedToButtonLines ==
  [][\A w \in Workers :
       Moves(w) =>
         /\ files'[currentHardware.GPIOPowerLED] = files[currentHardware.GPIOPowerLED]
         /\ \A p \in Paths :
              files'[p] # files[p] =>
                req[w].handler = "reset" /\ p = gp[w].path /\ p \in ButtonLines
         /\ req'[w].handler # "reset" => wlog'[w] = <<>>
         /\ \A i \in 1..Len(wlog'[w]) :
              /\ wlog'[w][i].path = wlog'[w][1].path
              /\ wlog'[w][i].path \in ButtonLines \ {currentHardware.GPIOPowerLED}
         /\ req[w].handler = "reset" => currentBootConfig' = currentBootConfig
    ]_vars

C28_Witness ==
  \E w \in Workers :
    /\ currentHardware = HWBeta
    /\ pc[w] = "done" /\ IsReset(w, "ForceRestart") /\ resp[w].code = 204
    /\ wlog[w] = <<Wr(HWBeta.GPIOReset, "1", TRUE), Wr(HWBeta.GPIOReset, "0", TRUE)>>
    /\ files[HWBeta.GPIOReset] = <<"0">>
    /\ files[HWBeta.GPIOPower] = <<"1">>
    /\ files[HWBeta.GPIOPowerLED] = <<"1">>

====
